---- MODULE Spec2Model ----
(***************************************************************************)
(* Model of src/src/address_space.rs: an AddressSpace owning a Vec of      *)
(* MapEntry records kept sorted by address, with add_mapping,              *)
(* add_mapping_at, remove_mapping and get_source_for_addr, and the         *)
(* FlagBuilder permission value.                                           *)
(*                                                                         *)
(* usize arithmetic keeps its width: every +, - and * of the source is     *)
(* computed modulo Word, and a build with overflow checks (the debug       *)
(* profile) panics where the exact result leaves 0..Word-1, while a build  *)
(* without them (the release profile) wraps.  The word and the virtual     *)
(* address width are scaled down (WordBits instead of 64, VaBits instead   *)
(* of 38) because TLC's integers are 32 bits wide; PAGE_SIZE and the shape *)
(* of every comparison are the source's.                                   *)
(***************************************************************************)
EXTENDS Integers, Sequences, FiniteSets, TLC

\* ---------------------------------------------------------------- bounds
\* width of usize in the model (64 in the source's targets)
WordBits == 20
\* width of a virtual address in the model: VADDR_MAX = 2^VaBits - 1
VaBits == 16
\* at most this many mappings are ever stored
MaxMappings == 3

\* ------------------------------------------------------------- constants
PAGE_SIZE == 4096

Word == 2 ^ WordBits

VADDR_MAX == (2 ^ VaBits) - 1

\* ----------------------------------------------------------- FlagBuilder
FlagBuilder == [read : BOOLEAN, write : BOOLEAN, execute : BOOLEAN,
                cow : BOOLEAN, private : BOOLEAN, shared : BOOLEAN]

\* FlagBuilder::new() / Default: every flag off
new == [read |-> FALSE, write |-> FALSE, execute |-> FALSE,
        cow |-> FALSE, private |-> FALSE, shared |-> FALSE]

\* flag!(read, toggle_read) and friends: the constructors
read == [new EXCEPT !.read = TRUE]

write == [new EXCEPT !.write = TRUE]

execute == [new EXCEPT !.execute = TRUE]

\* the six fields of FlagBuilder, by name
Capabilities == {"read", "write", "execute", "cow", "private", "shared"}

\* flag!($flag, $toggle), the constructor: only $flag on
flag(name) == [new EXCEPT ![name] = TRUE]

\* flag!($flag, $toggle), the toggler: $flag: !self.$flag, ..self
toggle(self, name) == [self EXCEPT ![name] = ~self[name]]

\* FlagBuilder::and: or-ing of each field
and(self, other) ==
    [read    |-> self.read \/ other.read,
     write   |-> self.write \/ other.write,
     execute |-> self.execute \/ other.execute,
     cow     |-> self.cow \/ other.cow,
     private |-> self.private \/ other.private,
     shared  |-> self.shared \/ other.shared]

\* a but_not that keeps only what both have
but_not_both(self, other) ==
    [read    |-> self.read /\ other.read,
     write   |-> self.write /\ other.write,
     execute |-> self.execute /\ other.execute,
     cow     |-> self.cow /\ other.cow,
     private |-> self.private /\ other.private,
     shared  |-> self.shared /\ other.shared]

\* FlagBuilder::but_not: self && !other on each field
but_not(self, other) ==
    [read    |-> self.read /\ ~other.read,
     write   |-> self.write /\ ~other.write,
     execute |-> self.execute /\ ~other.execute,
     cow     |-> self.cow /\ ~other.cow,
     private |-> self.private /\ ~other.private,
     shared  |-> self.shared /\ ~other.shared]

\* a check that forgets the write bit
check_access_perms_nowrite(self, access_perms) ==
    ~ (\/ access_perms.read /\ ~self.read
       \/ access_perms.execute /\ ~self.execute)

\* FlagBuilder::check_access_perms: only read, write and execute are tested
check_access_perms(self, access_perms) ==
    ~ (\/ access_perms.read /\ ~self.read
       \/ access_perms.write /\ ~self.write
       \/ access_perms.execute /\ ~self.execute)

\* ------------------------------------------------------------- the inputs
\* what a caller maps: a source, an offset into it and the flags granted
Requests == {[source |-> "s1", offset |-> 0, flags |-> read],
             [source |-> "s2", offset |-> 1, flags |-> and(read, write)]}

\* a span that wraps the word once two guard pages and a cursor are added
HugeSpan == Word - 3 * PAGE_SIZE

Spans == {0, 1, PAGE_SIZE, HugeSpan}

Starts == {0, 2 * PAGE_SIZE, Word - 2 * PAGE_SIZE}

AccessTypes == {read, write}

\* the addresses a lookup or a removal is asked about: every mapped one, and
\* one fixed one
Lookups(ms) == {ms[i].addr : i \in 1..Len(ms)} \cup {3 * PAGE_SIZE}

VARIABLES
    mappings,         \* AddressSpace.mappings: Seq of MapEntry
    overflow_checks,  \* the build: TRUE panics on overflow, FALSE wraps
    before,           \* mappings as they were when the last call began
    last,             \* the last call: operation, arguments and outcome
    fb                \* a FlagBuilder computation: operands, operation, result

vars == <<mappings, overflow_checks, before, last, fb>>

\* ------------------------------------------------------- usize arithmetic
\* the value a usize holds after an operation whose exact result is x
Wrap(x) == x % Word

\* the operation panics: the build checks overflow and x is out of range
Traps(x) == overflow_checks /\ (x < 0 \/ x >= Word)

\* ---------------------------------------------------------------- errors
ErrOutOfSpace == "out of address space!"

ErrNoRoom == "Not enough space after 'start' to map here."

ErrNotFound == "no mapping found starting at that address."

\* ---------------------------------------------------------------- MapEntry
\* MapEntry::new
MapEntry(source, offset, span, addr, flags) ==
    [source |-> source, offset |-> offset, span |-> span,
     addr |-> addr, flags |-> flags]

\* a sort that leaves the vector as pushed
sort_by_addr_unsorted(ms) == ms

\* self.mappings.sort_by(|a, b| a.addr.cmp(&b.addr)): a stable sort
RECURSIVE sort_by_addr(_)
sort_by_addr(ms) ==
    IF Len(ms) <= 1 THEN ms
    ELSE LET front == sort_by_addr(SubSeq(ms, 1, Len(ms) - 1))
             e == ms[Len(ms)]
             \* e was pushed last: it goes after every entry with addr <= e.addr
             k == Cardinality({i \in 1..Len(front) : front[i].addr <= e.addr})
         IN SubSeq(front, 1, k) \o <<e>> \o SubSeq(front, k + 1, Len(front))

\* ------------------------------------------------------------ add_mapping
\* lines 85-88: round the cursor up to the nearest page
round_up(addr_iter) ==
    IF addr_iter % PAGE_SIZE # 0
    THEN LET multiples == addr_iter \div PAGE_SIZE
         IN [panic |-> Traps((multiples + 1) * PAGE_SIZE),
             addr_iter |-> Wrap((multiples + 1) * PAGE_SIZE)]
    ELSE [panic |-> FALSE, addr_iter |-> addr_iter]

\* line 80: gap > span + 2 * PAGE_SIZE
fits(gap, span) == gap > Wrap(span + 2 * PAGE_SIZE)

\* lines 78-89: the walk over the mappings from index i with cursor addr_iter;
\* yields the cursor the loop ends with, or a panic
RECURSIVE walk(_, _, _, _)
walk(ms, i, addr_iter, span) ==
    IF i > Len(ms) THEN [panic |-> FALSE, addr_iter |-> addr_iter]
    ELSE LET mapping == ms[i]
             gap == Wrap(mapping.addr - addr_iter)
             end == Wrap(mapping.addr + mapping.span)
             rounded == round_up(end)
         IN IF Traps(mapping.addr - addr_iter) \/ Traps(span + 2 * PAGE_SIZE)
            THEN [panic |-> TRUE, addr_iter |-> addr_iter]
            ELSE IF fits(gap, span)
            THEN [panic |-> FALSE, addr_iter |-> addr_iter]
            ELSE IF Traps(mapping.addr + mapping.span) \/ rounded.panic
            THEN [panic |-> TRUE, addr_iter |-> addr_iter]
            ELSE walk(ms, i + 1, rounded.addr_iter, span)

\* line 79: some mapping.addr - addr_iter of the walk from index i is taken
\* with the cursor above the mapping's start
RECURSIVE underflows(_, _, _, _)
underflows(ms, i, addr_iter, span) ==
    IF i > Len(ms) THEN FALSE
    ELSE LET mapping == ms[i]
             rounded == round_up(Wrap(mapping.addr + mapping.span))
         IN IF mapping.addr < addr_iter THEN TRUE
            ELSE IF Traps(span + 2 * PAGE_SIZE) THEN FALSE
            ELSE IF fits(mapping.addr - addr_iter, span) THEN FALSE
            ELSE IF Traps(mapping.addr + mapping.span) \/ rounded.panic
            THEN FALSE
            ELSE underflows(ms, i + 1, rounded.addr_iter, span)

\* a placement two pages after the cursor
mapping_addr_two_pages(addr_iter) == Wrap(addr_iter + 2 * PAGE_SIZE)

\* a placement with no blank page before the mapping
mapping_addr_noguard(addr_iter) == addr_iter

\* line 91: 1 blank page before
mapping_addr(addr_iter) == Wrap(addr_iter + PAGE_SIZE)

\* line 90: addr_iter + span + 2 * PAGE_SIZE < VADDR_MAX
below_ceiling(addr_iter, span) ==
    Wrap(Wrap(addr_iter + span) + 2 * PAGE_SIZE) < VADDR_MAX

\* an add_mapping that pushes the entry before it tests the ceiling
add_mapping_push_first(ms, source, offset, span, flags) ==
    LET w == walk(ms, 1, PAGE_SIZE, span)
        addr_iter == w.addr_iter
        addr == mapping_addr(addr_iter)
        pushed == sort_by_addr(Append(ms,
                     MapEntry(source, offset, span, addr, flags)))
    IN IF w.panic
          \/ Traps(addr_iter + span)
          \/ Traps(Wrap(addr_iter + span) + 2 * PAGE_SIZE)
          \/ Traps(addr_iter + PAGE_SIZE)
       THEN [result |-> "panic", addr |-> 0, mappings |-> ms]
       ELSE IF below_ceiling(addr_iter, span)
       THEN [result |-> "Ok", addr |-> addr, mappings |-> pushed]
       ELSE [result |-> ErrOutOfSpace, addr |-> 0, mappings |-> pushed]

\* lines 76-97: the outcome of add_mapping on the vector ms
add_mapping(ms, source, offset, span, flags) ==
    LET w == walk(ms, 1, PAGE_SIZE, span)
        addr_iter == w.addr_iter
        addr == mapping_addr(addr_iter)
    IN IF w.panic
          \/ Traps(addr_iter + span)
          \/ Traps(Wrap(addr_iter + span) + 2 * PAGE_SIZE)
       THEN [result |-> "panic", addr |-> 0, mappings |-> ms]
       ELSE IF below_ceiling(addr_iter, span)
       THEN IF Traps(addr_iter + PAGE_SIZE)
            THEN [result |-> "panic", addr |-> 0, mappings |-> ms]
            ELSE [result |-> "Ok", addr |-> addr,
                  mappings |-> sort_by_addr(Append(ms,
                                 MapEntry(source, offset, span, addr, flags)))]
       ELSE [result |-> ErrOutOfSpace, addr |-> 0, mappings |-> ms]

\* --------------------------------------------------------- add_mapping_at
\* lines 113-119: the address of the first mapping above start, else of the
\* last mapping examined, else 0
RECURSIVE next_mapping_from(_, _, _, _)
next_mapping_from(ms, i, start, next_mapping) ==
    IF i > Len(ms) THEN next_mapping
    ELSE IF ms[i].addr > start THEN ms[i].addr
    ELSE next_mapping_from(ms, i + 1, start, ms[i].addr)

\* lines 113-127: the outcome of add_mapping_at on the vector ms
add_mapping_at(ms, source, offset, span, start, flags) ==
    LET next_mapping == next_mapping_from(ms, 1, start, 0)
        need == Wrap(Wrap(start + span) + 2 * PAGE_SIZE)
    IN IF Traps(start + span) \/ Traps(Wrap(start + span) + 2 * PAGE_SIZE)
       THEN [result |-> "panic", mappings |-> ms]
       ELSE IF need < next_mapping
       THEN [result |-> "Ok",
             mappings |-> sort_by_addr(Append(ms,
                            MapEntry(source, offset, span, start, flags)))]
       ELSE [result |-> ErrNoRoom, mappings |-> ms]

\* --------------------------------------------------------- remove_mapping
\* lines 141-147: remove the first mapping whose addr equals start
remove_mapping(ms, start) ==
    LET hits == {i \in 1..Len(ms) : ms[i].addr = start}
    IN IF hits = {}
       THEN [result |-> ErrNotFound, mappings |-> ms]
       ELSE LET mapping_num == CHOOSE i \in hits : \A j \in hits : i <= j
            IN [result |-> "Ok",
                mappings |-> SubSeq(ms, 1, mapping_num - 1)
                             \o SubSeq(ms, mapping_num + 1, Len(ms))]

\* ---------------------------------------------------- get_source_for_addr
\* lines 161-176: the first mapping at addr that permits access_type is
\* returned; when the loop ends without one, todo!() panics
get_source_for_addr(ms, addr, access_type) ==
    LET hits == {i \in 1..Len(ms) :
                   /\ ms[i].addr = addr
                   /\ check_access_perms(ms[i].flags, access_type)}
    IN IF hits = {}
       THEN [result |-> "panic", source |-> "none", offset |-> 0]
       ELSE LET k == CHOOSE i \in hits : \A j \in hits : i <= j
            IN [result |-> "Ok", source |-> ms[k].source,
                offset |-> ms[k].offset]

\* ------------------------------------------------------ the state machine
\* the record of a call; fields a call has no use for hold "none", 0 or new
Call(op, source, offset, span, addr, flags, result, ret_addr, ret_source, ret_offset) ==
    [op |-> op, source |-> source, offset |-> offset, span |-> span,
     addr |-> addr, flags |-> flags, result |-> result,
     ret_addr |-> ret_addr, ret_source |-> ret_source,
     ret_offset |-> ret_offset]

\* a FlagBuilder computation: op applied to self and other (and, for a
\* toggle, the field name), with its boolean or FlagBuilder result
Flags(op, self, other, name, ok, out) ==
    [op |-> op, self |-> self, other |-> other, name |-> name,
     ok |-> ok, out |-> out]

\* AddressSpace::new: no mappings; the build is either profile
Init ==
    /\ mappings = <<>>
    /\ overflow_checks \in BOOLEAN
    /\ before = <<>>
    /\ last = Call("new", "none", 0, 0, 0, new, "Ok", 0, "none", 0)
    /\ fb = Flags("none", new, new, "read", FALSE, new)

\* a panic ends the program
Running == last.result # "panic"

\* add_mapping called with a request out of requests and a span out of spans
AddMappingFrom(requests, spans) ==
    /\ Running
    /\ Len(mappings) < MaxMappings
    /\ \E rq \in requests, span \in spans :
         \E r \in {add_mapping(mappings, rq.source, rq.offset, span, rq.flags)} :
            /\ mappings' = r.mappings
            /\ last' = Call("add_mapping", rq.source, rq.offset, span, 0,
                            rq.flags, r.result, r.addr, "none", 0)
    /\ before' = mappings
    /\ UNCHANGED <<overflow_checks, fb>>

\* add_mapping called with a request out of requests
AddMappingOf(requests) == AddMappingFrom(requests, Spans)

\* add_mapping_at called with a request out of requests and a start out of
\* starts
AddMappingAtFrom(requests, starts) ==
    /\ Running
    /\ Len(mappings) < MaxMappings
    /\ \E rq \in requests, span \in Spans, start \in starts :
         \E r \in {add_mapping_at(mappings, rq.source, rq.offset, span, start,
                                 rq.flags)} :
            /\ mappings' = r.mappings
            /\ last' = Call("add_mapping_at", rq.source, rq.offset, span,
                            start, rq.flags, r.result, 0, "none", 0)
    /\ before' = mappings
    /\ UNCHANGED <<overflow_checks, fb>>

\* add_mapping_at called with a request out of requests
AddMappingAtOf(requests) == AddMappingAtFrom(requests, Starts)

AddMapping == AddMappingOf(Requests)

AddMappingAt == AddMappingAtOf(Requests)

\* the source argument is never read (line 137)
RemoveMapping ==
    /\ Running
    /\ \E start \in Lookups(mappings) :
         \E r \in {remove_mapping(mappings, start)} :
            /\ mappings' = r.mappings
            /\ last' = Call("remove_mapping", "none", 0, 0, start, new,
                            r.result, 0, "none", 0)
    /\ before' = mappings
    /\ UNCHANGED <<overflow_checks, fb>>

GetSourceForAddr ==
    /\ Running
    /\ \E addr \in Lookups(mappings), access_type \in AccessTypes :
         \E r \in {get_source_for_addr(mappings, addr, access_type)} :
            last' = Call("get_source_for_addr", "none", 0, 0, addr,
                         access_type, r.result, 0, r.source, r.offset)
    /\ before' = mappings
    /\ UNCHANGED <<mappings, overflow_checks, fb>>

Next == AddMapping \/ AddMappingAt \/ RemoveMapping \/ GetSourceForAddr

Spec == Init /\ [][Next]_vars

\* only add_mapping is ever called
SpecAdd == Init /\ [][AddMapping]_vars

\* The layout of the mappings (addr and span of each entry, and their order)
\* is computed from addr and span alone: source, offset and flags are stored
\* and never read by the three calls that change the vector.  SpecLayout runs
\* those three calls with a single request.
LayoutRequests == {[source |-> "s1", offset |-> 0, flags |-> read]}

AddMappingLayout == AddMappingOf(LayoutRequests)

AddMappingAtLayout == AddMappingAtOf(LayoutRequests)

NextLayout == AddMappingLayout \/ AddMappingAtLayout \/ RemoveMapping

SpecLayout == Init /\ [][NextLayout]_vars

\* SpecCeiling is SpecLayout with one more span for add_mapping: a span that
\* fits the machine word and leaves no room below VADDR_MAX
CeilingSpans == Spans \cup {VADDR_MAX}

AddMappingCeiling == AddMappingFrom(LayoutRequests, CeilingSpans)

NextCeiling == AddMappingCeiling \/ AddMappingAtLayout \/ RemoveMapping

SpecCeiling == Init /\ [][NextCeiling]_vars

\* SpecUnaligned is SpecLayout with one more start for add_mapping_at: an
\* address that is no multiple of PAGE_SIZE
UnalignedStarts == Starts \cup {2 * PAGE_SIZE + 1}

AddMappingAtUnaligned == AddMappingAtFrom(LayoutRequests, UnalignedStarts)

NextUnaligned == AddMappingLayout \/ AddMappingAtUnaligned \/ RemoveMapping

SpecUnaligned == Init /\ [][NextUnaligned]_vars

\* only add_mapping and remove_mapping are ever called
NextAddRemove == AddMapping \/ RemoveMapping

SpecAddRemove == Init /\ [][NextAddRemove]_vars

\* ------------------------------------------------ FlagBuilder on its own
\* any two of the 64 flag values, nothing computed yet
InitFlags ==
    /\ mappings = <<>>
    /\ overflow_checks = TRUE
    /\ before = <<>>
    /\ last = Call("new", "none", 0, 0, 0, new, "Ok", 0, "none", 0)
    /\ \E self \in FlagBuilder, other \in FlagBuilder :
          fb = Flags("none", self, other, "read", FALSE, new)

\* self.check_access_perms(other)
CheckAccessPerms ==
    /\ fb.op = "none"
    /\ fb' = [fb EXCEPT !.op = "check_access_perms",
                        !.ok = check_access_perms(fb.self, fb.other)]
    /\ UNCHANGED <<mappings, overflow_checks, before, last>>

\* self.but_not(other)
ButNot ==
    /\ fb.op = "none"
    /\ fb' = [fb EXCEPT !.op = "but_not",
                        !.out = but_not(fb.self, fb.other)]
    /\ UNCHANGED <<mappings, overflow_checks, before, last>>

\* self.toggle_<name>().but_not(FlagBuilder::<name>())
ToggleButNot ==
    /\ fb.op = "none"
    /\ \E name \in Capabilities :
          fb' = [fb EXCEPT !.op = "toggle_but_not", !.name = name,
                          !.out = but_not(toggle(fb.self, name), flag(name))]
    /\ UNCHANGED <<mappings, overflow_checks, before, last>>

NextFlags == CheckAccessPerms \/ ButNot \/ ToggleButNot

SpecFlags == InitFlags /\ [][NextFlags]_vars

\* ------------------------------------------------------------- properties
Max(a, b) == IF a >= b THEN a ELSE b

Min(a, b) == IF a <= b THEN a ELSE b

\* the byte ranges [addr, addr + span) of two mappings share a byte
Overlap(m1, m2) ==
    Max(m1.addr, m2.addr) < Min(m1.addr + m1.span, m2.addr + m2.span)

\* the exact distance from the end of mappings[i] to the start of mappings[i+1]
Separation(i) ==
    mappings[i + 1].addr - (mappings[i].addr + mappings[i].span)

\* x rounded up to a page boundary, exactly
PageCeil(x) == ((x + PAGE_SIZE - 1) \div PAGE_SIZE) * PAGE_SIZE

\* the r/w/x bits of access are among those of flags
AccessWithin(access, flags) ==
    /\ access.read => flags.read
    /\ access.write => flags.write
    /\ access.execute => flags.execute

\* the call returned an error value to its caller
ReturnedErr(c) == c.result \notin {"Ok", "panic"}

\* C1: in every reachable state no two stored mappings overlap: the byte
\* ranges [addr, addr + span) of any two distinct entries are disjoint.
C1_NoOverlap ==
    \A i, j \in 1..Len(mappings) :
        i < j => ~Overlap(mappings[i], mappings[j])

C3_NoPageZero ==
    \A i \in 1..Len(mappings) : mappings[i].addr >= PAGE_SIZE

\* C4: in every reachable state every stored mapping has
\* addr + span <= VADDR_MAX, whatever machine-word arguments were passed.
C4_BelowCeiling ==
    \A i \in 1..Len(mappings) :
        mappings[i].addr + mappings[i].span <= VADDR_MAX

\* C5: after every call, successful or failed, the mappings are sorted by
\* ascending start address.
C5_Sorted ==
    \A i \in 1..(Len(mappings) - 1) :
        mappings[i].addr <= mappings[i + 1].addr

\* an insertion landed below an existing mapping, so the sort had to move it
C5_Witness ==
    /\ last.op \in {"add_mapping", "add_mapping_at"} /\ last.result = "Ok"
    /\ Len(mappings) >= 2
    /\ Len(before) = Len(mappings) - 1
    /\ \E i \in 1..Len(before) : mappings[i] # before[i]

\* C6: when add_mapping returns Ok(a), a get_source_for_addr(a, access) that
\* follows immediately, with access within the granted flags, returns Ok with
\* the source and the offset of that add_mapping.
C6_AddThenGet ==
    [][(/\ last.op = "add_mapping" /\ last.result = "Ok"
        /\ last'.op = "get_source_for_addr"
        /\ last'.addr = last.ret_addr
        /\ AccessWithin(last'.flags, last.flags))
       => (/\ last'.result = "Ok"
           /\ last'.ret_source = last.source
           /\ last'.ret_offset = last.offset)]_vars

\* C7: when a mapping starts at addr and the access asks for a read, write or
\* execute bit the mappings at addr lack, get_source_for_addr returns an error
\* value (it neither returns a source nor aborts) and changes nothing.
C7_PermissionDenied ==
    (/\ last.op = "get_source_for_addr"
     /\ \E i \in 1..Len(before) : before[i].addr = last.addr
     /\ \A i \in 1..Len(before) :
           before[i].addr = last.addr
               => ~AccessWithin(last.flags, before[i].flags))
        => (ReturnedErr(last) /\ mappings = before)

\* C8: when no stored mapping starts at addr, get_source_for_addr returns an
\* error value rather than aborting or returning a source.
C8_NotFound ==
    (/\ last.op = "get_source_for_addr"
     /\ \A i \in 1..Len(before) : before[i].addr # last.addr)
        => ReturnedErr(last)

\* C9: when remove_mapping(_, start) returns Ok, a second remove_mapping(_,
\* start) that follows immediately returns the not-found error and leaves the
\* mappings unchanged.
C9_RemoveTwice ==
    [][(/\ last.op = "remove_mapping" /\ last.result = "Ok"
        /\ last'.op = "remove_mapping"
        /\ last'.addr = last.addr)
       => (last'.result = ErrNotFound /\ mappings' = mappings)]_vars

\* C10: whenever add_mapping(span) succeeds there is no lower gap, from
\* PAGE_SIZE or the page-rounded end of a mapping to the start of the next
\* mapping, of size at least span + 2 * PAGE_SIZE.
C10_LowestGap ==
    (last.op = "add_mapping" /\ last.result = "Ok")
        => ~ \E i \in 1..Len(before) :
               LET lo == IF i = 1 THEN PAGE_SIZE
                         ELSE PageCeil(before[i - 1].addr + before[i - 1].span)
               IN /\ lo + PAGE_SIZE < last.ret_addr
                  /\ before[i].addr - lo >= last.span + 2 * PAGE_SIZE

\* every capability of requested, out of caps, is set in self
Subsumes(self, requested, caps) ==
    \A name \in caps : requested[name] => self[name]

\* C14 as stated: check_access_perms is true exactly when every one of the
\* six capabilities set in requested is set in self.
C14_AllSix ==
    fb.op = "check_access_perms"
        => (fb.ok <=> Subsumes(fb.self, fb.other, Capabilities))

\* C14 amended: for all 64 x 64 pairs, check_access_perms is true exactly when
\* every one of read, write, execute set in requested is set in self (cow,
\* private and shared are not looked at); read().and(execute()) permits
\* read() and refuses write().
C14_ReadWriteExecute ==
    fb.op = "check_access_perms"
        => /\ fb.ok <=> Subsumes(fb.self, fb.other, {"read", "write", "execute"})
           /\ (fb.self = and(read, execute) /\ fb.other = read) => fb.ok
           /\ (fb.self = and(read, execute) /\ fb.other = write) => ~fb.ok

\* read().and(execute()) was asked for write() and refused it
C14_Witness ==
    /\ fb.op = "check_access_perms"
    /\ fb.self = and(read, execute) /\ fb.other = write
    /\ ~fb.ok

\* C15: toggling a capability that is off and then but_not of that single
\* capability gives the value back; but_not clears the capabilities set in
\* its argument and leaves every other capability of self as it was.
C15_ButNot ==
    /\ (fb.op = "toggle_but_not" /\ ~fb.self[fb.name]) => fb.out = fb.self
    /\ fb.op = "but_not"
          => \A name \in Capabilities :
                fb.out[name] = IF fb.other[name] THEN FALSE ELSE fb.self[name]

\* read().toggle_execute().but_not(execute()) was computed, and is read()
C15_Witness ==
    /\ fb.op = "toggle_but_not"
    /\ fb.self = read /\ fb.name = "execute"
    /\ fb.out = read

C12_NoNextMapping ==
    (/\ last.op = "add_mapping_at"
     /\ \A i \in 1..Len(before) : before[i].addr <= last.addr
     /\ last.addr + last.span <= VADDR_MAX)
        => (/\ last.result = "Ok"
            /\ Len(mappings) = Len(before) + 1
            /\ \E i \in 1..Len(mappings) :
                  mappings[i].addr = last.addr /\ mappings[i].span = last.span)

\* C13: on an empty AddressSpace add_mapping with offset 0 and span 1 returns
\* exactly 2 * PAGE_SIZE, and a second add_mapping, with span 0, then returns
\* an address that is at least 3 * PAGE_SIZE and above the first.
C13_Scenario ==
    /\ (/\ last.op = "add_mapping" /\ before = <<>>
        /\ last.offset = 0 /\ last.span = 1)
          => (last.result = "Ok" /\ last.ret_addr = 2 * PAGE_SIZE)
    /\ (/\ last.op = "add_mapping" /\ Len(before) = 1
        /\ before[1].offset = 0 /\ before[1].span = 1
        /\ before[1].addr = 2 * PAGE_SIZE
        /\ last.span = 0)
          => (/\ last.result = "Ok"
              /\ last.ret_addr >= 3 * PAGE_SIZE
              /\ last.ret_addr > before[1].addr)

\* the second add_mapping of the scenario returned
C13_Witness ==
    /\ last.op = "add_mapping" /\ last.span = 0 /\ last.result = "Ok"
    /\ Len(before) = 1
    /\ before[1].offset = 0 /\ before[1].span = 1
    /\ before[1].addr = 2 * PAGE_SIZE
    /\ Len(mappings) = 2
    /\ mappings[2].addr = last.ret_addr

\* C16: when a stored mapping starts above start and start + span +
\* 2 * PAGE_SIZE is not below the start of the first such mapping,
\* add_mapping_at returns the insufficient-space error and leaves the
\* mappings unchanged.
C16_NoRoomBeforeNext ==
    (/\ last.op = "add_mapping_at"
     /\ \E i \in 1..Len(before) :
           /\ before[i].addr > last.addr
           /\ \A j \in 1..(i - 1) : before[j].addr <= last.addr
           /\ ~(last.addr + last.span + 2 * PAGE_SIZE < before[i].addr))
        => (last.result = ErrNoRoom /\ mappings = before)

\* C17: in every reachable state every stored mapping starts on a page
\* boundary: addr mod PAGE_SIZE = 0.
C17_PageAligned ==
    \A i \in 1..Len(mappings) : mappings[i].addr % PAGE_SIZE = 0

\* C18: with add_mapping and remove_mapping only, no two mappings overlap and
\* every two neighbours are at least PAGE_SIZE apart:
\* next.addr - (prev.addr + prev.span) >= PAGE_SIZE.
C18_GuardPageKept ==
    /\ \A i, j \in 1..Len(mappings) :
          i < j => ~Overlap(mappings[i], mappings[j])
    /\ \A i \in 1..(Len(mappings) - 1) : Separation(i) >= PAGE_SIZE

\* C19: in the walk of every add_mapping call the cursor addr_iter is never
\* above the start of the mapping examined, so mapping.addr - addr_iter does
\* not underflow and the walk does not panic.
C19_CursorBelowMapping ==
    last.op = "add_mapping"
        => /\ ~underflows(before, 1, PAGE_SIZE, last.span)
           /\ ~walk(before, 1, PAGE_SIZE, last.span).panic

\* C20: when add_mapping returns Ok(a), a remove_mapping(_, a) that follows
\* immediately returns Ok and leaves the mappings exactly as they were before
\* the add_mapping.
C20_AddThenRemove ==
    [][(/\ last.op = "add_mapping" /\ last.result = "Ok"
        /\ last'.op = "remove_mapping"
        /\ last'.addr = last.ret_addr)
       => (last'.result = "Ok" /\ mappings' = before)]_vars

====
